---- MODULE Spec2Model ----
(***************************************************************************)
(* A model of quickdisorder's proof checker:                               *)
(*   check_proof.py  : invert_word, tree_ok, all_nontrivial_edge_labels,   *)
(*                     check_claim, check_proof and the two sample proofs  *)
(*   word_problem.py : pairs, is_manifold, WordProblemSolver               *)
(* Python strings are sequences of one-character strings, so that          *)
(* concatenation, split, join, swapcase, upper, reversal and startswith    *)
(* are computed rather than assumed.                                       *)
(***************************************************************************)
EXTENDS Naturals, Integers, Sequences, FiniteSets, TLC

VARIABLES
    \* tree_ok (check_proof.py 24-69)
    tpc, tpaths, T, leaves, tresult,
    \* WordProblemSolver (word_problem.py 79-145)
    spc, manifold, env, rho, pairIdx, anchors, mats, serr, verifyCalled,
    evaluated, call,
    \* check_proof (check_proof.py 83-100)
    ppc, proof, orc, claims, a0, a1, a2, outcome, raised

treeVars == <<tpc, tpaths, T, leaves, tresult>>
solverVars == <<spc, manifold, env, rho, pairIdx, anchors, mats, serr,
                verifyCalled, evaluated, call>>
proofVars == <<ppc, proof, orc, claims, a0, a1, a2, outcome, raised>>
vars == <<treeVars, solverVars, proofVars>>

----------------------------------------------------------------------------
(* Bounds of the model *)

MaxClaims == 2
MaxPathLen == 2
MaxProofClaims == 2
MaxGens == 4
MaxCusps == 2
MaxCoef == 3

----------------------------------------------------------------------------
(* Python strings *)

Abs(n) == IF n < 0 THEN 0 - n ELSE n

LowerLetters == <<"a", "b", "c", "d", "e", "f">>
UpperLetters == <<"A", "B", "C", "D", "E", "F">>
Dot == "."

\* str.swapcase on one character: letters change case, anything else stays
SwapCaseChar(ch) ==
    IF \E i \in 1..Len(LowerLetters) : LowerLetters[i] = ch
    THEN UpperLetters[CHOOSE i \in 1..Len(LowerLetters) : LowerLetters[i] = ch]
    ELSE IF \E i \in 1..Len(UpperLetters) : UpperLetters[i] = ch
         THEN LowerLetters[CHOOSE i \in 1..Len(UpperLetters) : UpperLetters[i] = ch]
         ELSE ch

\* str.upper on one character
UpperChar(ch) ==
    IF \E i \in 1..Len(LowerLetters) : LowerLetters[i] = ch
    THEN UpperLetters[CHOOSE i \in 1..Len(LowerLetters) : LowerLetters[i] = ch]
    ELSE ch

SwapCase(w) == [i \in 1..Len(w) |-> SwapCaseChar(w[i])]
Upper(w) == [i \in 1..Len(w) |-> UpperChar(w[i])]
\* w[::-1]
Reversed(w) == [i \in 1..Len(w) |-> w[Len(w) + 1 - i]]

\* v.startswith(p)
StartsWith(v, p) == Len(p) <= Len(v) /\ SubSeq(v, 1, Len(p)) = p

\* s.split('.') : the tokens between the dots, empty tokens included. The
\* string is cut at one of its dots and the tokens of the two sides follow
\* each other.
Dots(s) == {i \in 1..Len(s) : s[i] = Dot}
MiddleDot(s) ==
    CHOOSE d \in Dots(s) :
        \A e \in Dots(s) : Abs(2 * d - Len(s)) <= Abs(2 * e - Len(s))
RECURSIVE Split(_)
Split(s) ==
    IF Dots(s) = {} THEN <<s>>
    ELSE Split(SubSeq(s, 1, MiddleDot(s) - 1))
            \o Split(SubSeq(s, MiddleDot(s) + 1, Len(s)))

\* ''.join(tokens); for several tokens, the join of the first half followed
\* by the join of the second half
RECURSIVE Concat(_)
Concat(tokens) ==
    IF tokens = <<>> THEN <<>>
    ELSE IF Len(tokens) = 1 THEN tokens[1]
    ELSE Concat(SubSeq(tokens, 1, Len(tokens) \div 2))
            \o Concat(SubSeq(tokens, Len(tokens) \div 2 + 1, Len(tokens)))

\* '.'.join(tokens): how a proof record writes a path or a word list
RECURSIVE DotJoin(_)
DotJoin(tokens) ==
    IF tokens = <<>> THEN <<>>
    ELSE IF Len(tokens) = 1 THEN Head(tokens)
    ELSE Head(tokens) \o <<Dot>> \o DotJoin(Tail(tokens))

\* set(xs) of a list
Range(s) == {s[i] : i \in 1..Len(s)}

\* all sequences over S of length lo..hi
SeqsOf(S, lo, hi) == UNION {[1..n -> S] : n \in lo..hi}

----------------------------------------------------------------------------
(* check_proof.py: invert_word, paths_to_root, tree_ok *)

InvertWord(word) == Reversed(SwapCase(word))

PathsToRoot(cs) == [i \in 1..Len(cs) |-> cs[i][1]]

Root == <<"1">>

\* nx.DiGraph(): nodes, and edges in insertion order (an edge added again
\* keeps its place and takes the new label)
EmptyGraph == [nodes |-> {}, edges |-> <<>>]
AddNode(G, v) == [G EXCEPT !.nodes = @ \cup {v}]
AddEdge(G, u, v, g) ==
    LET hit == {i \in 1..Len(G.edges) : G.edges[i].from = u /\ G.edges[i].to = v}
        e == [from |-> u, to |-> v, label |-> g]
    IN [nodes |-> G.nodes \cup {u, v},
        edges |-> IF hit = {} THEN Append(G.edges, e)
                  ELSE [i \in 1..Len(G.edges) |->
                           IF i \in hit THEN e ELSE G.edges[i]]]

InDegree(G, v) == Cardinality({i \in 1..Len(G.edges) : G.edges[i].to = v})
OutDegree(G, v) == Cardinality({i \in 1..Len(G.edges) : G.edges[i].from = v})
\* T.degree() of a DiGraph: in-degree plus out-degree
Degree(G, v) == InDegree(G, v) + OutDegree(G, v)

\* [attr['label'] for attr in T.adj[v].values()]
OutLabels(G, v) ==
    LET out == SelectSeq(G.edges, LAMBDA e : e.from = v)
    IN [i \in 1..Len(out) |-> out[i].label]

\* nx.weakly_connected_components
RECURSIVE WeakClosure(_, _)
WeakClosure(G, S) ==
    LET S2 == S \cup {G.edges[i].to : i \in {j \in 1..Len(G.edges) : G.edges[j].from \in S}}
                \cup {G.edges[i].from : i \in {j \in 1..Len(G.edges) : G.edges[j].to \in S}}
    IN IF S2 = S THEN S ELSE WeakClosure(G, S2)
Components(G) == {WeakClosure(G, {v}) : v \in G.nodes}

\* nx.is_forest: every weak component has one edge less than it has nodes
IsForest(G) ==
    \A c \in Components(G) :
        Cardinality(c) - 1 =
            Cardinality({i \in 1..Len(G.edges) :
                            G.edges[i].from \in c /\ G.edges[i].to \in c})

\* nx.is_branching: a forest with every in-degree at most 1
IsBranching(G) == IsForest(G) /\ \A v \in G.nodes : InDegree(G, v) <= 1

\* lines 26-28: the state before the first path
NoRootLeaf == <<>>
InitLeaves == <<Root>>
TreeStart == [G |-> AddNode(EmptyGraph, Root), leaves |-> InitLeaves]

\* lines 30-35: one iteration of `for path in paths`
RECURSIVE WalkPath(_, _, _)
WalkPath(G, vert, path) ==
    IF path = <<>> THEN [G |-> G, vert |-> vert]
    ELSE LET g == Head(path)
             new_vert == vert \o <<Dot>> \o g
         IN WalkPath(AddEdge(G, vert, new_vert, g), new_vert, Tail(path))
AddPath(st, path) ==
    LET w == WalkPath(st.G, Root, path)
    IN [G |-> w.G, leaves |-> Append(st.leaves, w.vert)]

RECURSIVE BuildFrom(_, _)
BuildFrom(st, paths) ==
    IF paths = <<>> THEN st ELSE BuildFrom(AddPath(st, Head(paths)), Tail(paths))
BuildTree(paths) == BuildFrom(TreeStart, paths)

\* lines 53-57: the two outgoing labels of an interior vertex. A vertex
\* that passed the branching test and has degree 3 and an incoming edge has
\* exactly two successors, so the unpacking into w0, w1 succeeds.
NoInverseCheck(G, v) == Len(OutLabels(G, v)) = 2
InverseLabelsOK(G, v) ==
    LET labs == OutLabels(G, v)
    IN Len(labs) = 2 /\ InvertWord(labs[1]) = labs[2]

\* lines 45-57: the body of `for v in T.nodes()`; FALSE is `return False`
NodeOK(st, v) ==
    IF v \in Range(st.leaves)
    THEN Degree(st.G, v) = 1
    ELSE Degree(st.G, v) = 3 /\ InverseLabelsOK(st.G, v)

\* line 49: leaf_count after the loop has run over every node
LeafCount(st) == Cardinality({v \in st.G.nodes : v \in Range(st.leaves)})

\* lines 59-61
NoRedundancyCheck(st) == TRUE
NoRedundancy(st) == LeafCount(st) = Len(st.leaves)

\* nx.single_source_shortest_path(T, '1')[v]: the nodes from the root to v
RECURSIVE PathFromRoot(_, _, _)
PathFromRoot(G, v, fuel) ==
    IF v = Root \/ fuel = 0 \/ InDegree(G, v) = 0 THEN <<v>>
    ELSE LET i == CHOOSE j \in 1..Len(G.edges) : G.edges[j].to = v
         IN Append(PathFromRoot(G, G.edges[i].from, fuel - 1), v)
ReachableFromRoot(G) ==
    {v \in G.nodes : Head(PathFromRoot(G, v, Cardinality(G.nodes))) = Root}

\* lines 64-68
PrefixConsistent(G) ==
    \A v \in ReachableFromRoot(G) :
        LET path == PathFromRoot(G, v, Cardinality(G.nodes))
        IN \A k \in 1..Len(path) : StartsWith(v, path[k])

\* lines 39-69: everything after the tree is built
CheckTree(st) ==
    /\ IsBranching(st.G)
    /\ \A v \in st.G.nodes : NodeOK(st, v)
    /\ NoRedundancy(st)
    /\ PrefixConsistent(st.G)

\* tree_ok(claims)
TreeOk(cs) == CheckTree(BuildTree(PathsToRoot(cs)))

----------------------------------------------------------------------------
(* word_problem.py: pairs, is_manifold, WordProblemSolver *)

\* pairs(xs): for i, x in enumerate(xs): for y in xs[i+1:]: yield (x, y)
RECURSIVE PairsFrom(_, _, _)
PairsFrom(xs, i, j) ==
    IF i > Len(xs) THEN <<>>
    ELSE IF j > Len(xs) THEN PairsFrom(xs, i + 1, i + 2)
    ELSE << <<xs[i], xs[j]>> >> \o PairsFrom(xs, i, j + 1)
\* the same pairs, those with the earlier second member first
RECURSIVE PairsBySecondFrom(_, _, _)
PairsBySecondFrom(xs, i, j) ==
    IF j > Len(xs) THEN <<>>
    ELSE IF i >= j THEN PairsBySecondFrom(xs, 1, j + 1)
    ELSE << <<xs[i], xs[j]>> >> \o PairsBySecondFrom(xs, i + 1, j)
PairsBySecond(xs) == PairsBySecondFrom(xs, 1, 2)
Pairs(xs) == PairsFrom(xs, 1, 2)

\* a filling coefficient as cusp_info('filling') gives it: an integral value
\* n, or a value that is no integer (1.3, 4.5), for which ZZ() raises
\* TypeError
IntCoef(n) == [int |-> TRUE, n |-> n]
NonIntCoef == [int |-> FALSE, n |-> 1]

RECURSIVE GcdNat(_, _)
GcdNat(a, b) == IF b = 0 THEN a ELSE GcdNat(b, a % b)
\* sage's gcd of two integers: never negative, gcd(0, 0) = 0
Gcd(a, b) == GcdNat(Abs(a), Abs(b))

\* lines 27-36, from cusp i on
RECURSIVE IsManifoldFrom(_, _)
IsManifoldFrom(fill, i) ==
    IF i > Len(fill) THEN TRUE
    ELSE LET a == fill[i][1]
             b == fill[i][2]
         IN IF ~(a.int /\ b.int) THEN FALSE
            ELSE IF a.n = 0 /\ b.n = 0 THEN IsManifoldFrom(fill, i + 1)
            ELSE IF Gcd(a.n, b.n) # 1 THEN FALSE
            ELSE IsManifoldFrom(fill, i + 1)
\* is_manifold without the `continue` for an unfilled cusp
RECURSIVE IsManifoldNoUnfilledFrom(_, _)
IsManifoldNoUnfilledFrom(fill, i) ==
    IF i > Len(fill) THEN TRUE
    ELSE LET a == fill[i][1]
             b == fill[i][2]
         IN IF ~(a.int /\ b.int) THEN FALSE
            ELSE IF Gcd(a.n, b.n) # 1 THEN FALSE
            ELSE IsManifoldNoUnfilledFrom(fill, i + 1)
IsManifoldNoUnfilled(fill) == IsManifoldNoUnfilledFrom(fill, 1)
IsManifold(fill) == IsManifoldFrom(fill, 1)

\* g + h + (g + h).upper()
CommutatorWord(g, h) == (g \o h) \o Upper(g \o h)

\* rho(word): the interval matrix the representation gives for a word
Image(word) == [word |-> word]

\* What the interval tests say about the image X of a word and the anchors
\* A, B: one = contains_one(X), jPQ = jorgensens_inequality_fails(P, Q).
XOracle == [one : BOOLEAN, jXA : BOOLEAN, jAX : BOOLEAN,
            jXB : BOOLEAN, jBX : BOOLEAN]

\* lines 131-142; "raise" is the ValueError 'Failed to solve the word
\* problem at this precision.'
IsNontrivial(x) ==
    IF ~x.one THEN "True"
    ELSE IF x.jXA /\ x.jXB THEN "False"
    ELSE "raise"

\* lines 144-145: not self.is_nontrivial(word)
IsTrivial(x) ==
    LET r == IsNontrivial(x)
    IN IF r = "raise" THEN "raise" ELSE IF r = "True" THEN "False" ELSE "True"

OrbifoldError == "Sorry, we do not support orbifold singularities"
HolonomyError == "Could not verify the holonomy representation."
NoncommutingError == "Could not verify a pair of noncommuting gens."

NoCall == [method |-> "none",
           x |-> [one |-> FALSE, jXA |-> FALSE, jAX |-> FALSE,
                  jXB |-> FALSE, jBX |-> FALSE],
           result |-> "none"]

SolverIdle ==
    /\ spc = "idle" /\ manifold = <<>>
    /\ env = [success |-> FALSE, gens |-> <<>>, one |-> {}]
    /\ rho = FALSE /\ pairIdx = 0 /\ anchors = <<>> /\ mats = <<>>
    /\ serr = "" /\ verifyCalled = FALSE /\ evaluated = FALSE /\ call = NoCall

\* rho.generators() of a representation with n generators
GenNames(n) == [i \in 1..n |-> <<LowerLetters[i]>>]
\* what verify_hyperbolicity can answer: failure, or a representation with
\* its generators and the set of commutator words whose image contains one
Envs(lo, hi) ==
    UNION {[success : BOOLEAN, gens : {GenNames(n)},
            one : SUBSET {CommutatorWord(GenNames(n)[p[1]], GenNames(n)[p[2]]) :
                            p \in {q \in (1..n) \X (1..n) : q[1] < q[2]}}] :
           n \in lo..hi}

Coefs == {IntCoef(k) : k \in (0 - 1)..MaxCoef} \cup {NonIntCoef}
Fillings == SeqsOf(Coefs \X Coefs, 0, MaxCusps)

\* WordProblemSolver(manifold) is about to be constructed
SolverStart ==
    /\ spc = "new"
    /\ rho = FALSE /\ pairIdx = 0 /\ anchors = <<>> /\ mats = <<>>
    /\ serr = "" /\ verifyCalled = FALSE /\ evaluated = FALSE /\ call = NoCall

\* a few manifolds, every representation
SolverInit ==
    /\ SolverStart
    /\ manifold \in {<< <<IntCoef(0), IntCoef(0)>> >>,
                     << <<IntCoef(1), IntCoef(2)>> >>,
                     << <<IntCoef(2), IntCoef(2)>> >>}
    /\ env \in Envs(0, MaxGens)

\* every filling, a few representations
ManifoldInit ==
    /\ SolverStart
    /\ manifold \in Fillings
    /\ env \in Envs(2, 2)

\* __init__, lines 110-111
SolverNew ==
    /\ spc = "new"
    /\ IF ~IsManifold(manifold)
       THEN spc' = "failed" /\ serr' = OrbifoldError
       ELSE spc' = "verify" /\ serr' = serr
    /\ UNCHANGED <<manifold, env, rho, pairIdx, anchors, mats, verifyCalled,
                   evaluated, call>>
    /\ UNCHANGED <<treeVars, proofVars>>

\* __init__, lines 113-120 up to the call of _find_noncommuting_gens
SolverVerify ==
    /\ spc = "verify"
    /\ verifyCalled' = TRUE
    /\ IF ~env.success
       THEN spc' = "failed" /\ serr' = HolonomyError /\ UNCHANGED <<rho, pairIdx>>
       ELSE spc' = "find" /\ rho' = TRUE /\ pairIdx' = 1 /\ serr' = serr
    /\ UNCHANGED <<manifold, env, anchors, mats, evaluated, call>>
    /\ UNCHANGED <<treeVars, proofVars>>

\* _find_noncommuting_gens, lines 124-128: one pair
SolverFindStep ==
    /\ spc = "find"
    /\ pairIdx <= Len(Pairs(env.gens))
    /\ LET g == Pairs(env.gens)[pairIdx][1]
           h == Pairs(env.gens)[pairIdx][2]
       IN IF CommutatorWord(g, h) \notin env.one
          THEN /\ anchors' = <<g, h>>
               /\ mats' = <<Image(g), Image(h)>>
               /\ spc' = "ready"
               /\ pairIdx' = pairIdx
          ELSE /\ pairIdx' = pairIdx + 1
               /\ UNCHANGED <<anchors, mats, spc>>
    /\ evaluated' = TRUE
    /\ UNCHANGED <<manifold, env, rho, serr, verifyCalled, call>>
    /\ UNCHANGED <<treeVars, proofVars>>

\* _find_noncommuting_gens, line 129: the pairs exhausted
SolverFindFail ==
    /\ spc = "find"
    /\ pairIdx > Len(Pairs(env.gens))
    /\ spc' = "failed"
    /\ serr' = NoncommutingError
    /\ UNCHANGED <<manifold, env, rho, pairIdx, anchors, mats, verifyCalled,
                   evaluated, call>>
    /\ UNCHANGED <<treeVars, proofVars>>

\* is_nontrivial(word), for a word whose image tests as x; the program is
\* single-threaded, so no other call is in progress
SolverIsNontrivial ==
    /\ spc = "ready"
    /\ call = NoCall
    /\ \E x \in XOracle :
        call' = [method |-> "is_nontrivial", x |-> x, result |-> IsNontrivial(x)]
    /\ evaluated' = TRUE
    /\ UNCHANGED <<spc, manifold, env, rho, pairIdx, anchors, mats, serr,
                   verifyCalled>>
    /\ UNCHANGED <<treeVars, proofVars>>

\* is_trivial(word), for a word whose image tests as x
SolverIsTrivial ==
    /\ spc = "ready"
    /\ call = NoCall
    /\ \E x \in XOracle :
        call' = [method |-> "is_trivial", x |-> x, result |-> IsTrivial(x)]
    /\ evaluated' = TRUE
    /\ UNCHANGED <<spc, manifold, env, rho, pairIdx, anchors, mats, serr,
                   verifyCalled>>
    /\ UNCHANGED <<treeVars, proofVars>>

\* the caller has taken the result (or the exception) of its call
SolverReturn ==
    /\ spc = "ready"
    /\ call # NoCall
    /\ call' = NoCall
    /\ UNCHANGED <<spc, manifold, env, rho, pairIdx, anchors, mats, serr,
                   verifyCalled, evaluated>>
    /\ UNCHANGED <<treeVars, proofVars>>

SolverNext ==
    \/ SolverNew \/ SolverVerify \/ SolverFindStep \/ SolverFindFail
    \/ SolverIsNontrivial \/ SolverIsTrivial \/ SolverReturn

----------------------------------------------------------------------------
(* check_proof.py: all_nontrivial_edge_labels, check_claim, check_proof *)

\* lines 95-96: [(a.split('.'), b.split('.')) for a, b in proof['proof']]
ParseClaims(pr) == [i \in 1..Len(pr) |-> <<Split(pr[i][1]), Split(pr[i][2])>>]

\* line 74: set(sum(paths_to_root(claims), []))
EdgeLabels(cs) == UNION {Range(cs[i][1]) : i \in 1..Len(cs)}

\* line 75 with the set enumerated in the given order: all() stops at the
\* first label that is not shown nontrivial, and a raise ends it
RECURSIVE AllNontrivialInOrder(_, _)
AllNontrivialInOrder(o, order) ==
    IF order = <<>> THEN "True"
    ELSE LET r == IsNontrivial(o[Head(order)])
         IN IF r = "True" THEN AllNontrivialInOrder(o, Tail(order)) ELSE r

\* lines 73-75: the outcomes all_nontrivial_edge_labels can have. A set of
\* strings is enumerated in an order the program does not fix, so any label
\* that is not shown nontrivial can be the first such label met, and it
\* decides the call.
EdgeLabelOutcomes(o, labels) ==
    LET bad == {e \in labels : IsNontrivial(o[e]) # "True"}
    IN IF bad = {} THEN {"True"} ELSE {IsNontrivial(o[e]) : e \in bad}

\* check_claim without the membership test of the tokens
CheckClaimNoSubset(o, claim) ==
    IsTrivial(o[Concat(claim[2])])
\* lines 77-81
CheckClaim(o, claim) ==
    LET path_to_root == claim[1]
        trivial_word == claim[2]
        is_one == IsTrivial(o[Concat(trivial_word)])
    IN IF is_one = "raise" THEN "raise"
       ELSE IF Range(trivial_word) \subseteq Range(path_to_root) /\ is_one = "True"
            THEN "True" ELSE "False"

\* line 99: all(check_claim(solver, c) for c in claims), in list order
RECURSIVE AllClaims(_, _)
AllClaims(o, cs) ==
    IF cs = <<>> THEN "True"
    ELSE LET r == CheckClaim(o, Head(cs))
         IN IF r = "True" THEN AllClaims(o, Tail(cs)) ELSE r

\* lines 98 and 99: an exception of the call leaves check_proof, a returned
\* value is kept
SwallowRaise(r) == [raises |-> FALSE, value |-> r = "True"]
CallResult(r) == [raises |-> r = "raise", value |-> r = "True"]

\* line 100
ReturnValue(b0, b1, b2) == IF b0 /\ b1 /\ b2 THEN "True" ELSE "False"

\* lines 97-100 with the enumeration order of the edge labels given
CheckProofInOrder(cs, o, order) ==
    LET b0 == TreeOk(cs)
        r1 == CallResult(AllNontrivialInOrder(o, order))
        r2 == CallResult(AllClaims(o, cs))
    IN IF r1.raises \/ r2.raises THEN "PrecisionError"
       ELSE ReturnValue(b0, r1.value, r2.value)

\* three images: provably not the identity; ambiguous and failing Jorgensen
\* against both anchors; ambiguous and not failing it
AnsNontrivial == [one |-> FALSE, jXA |-> FALSE, jAX |-> FALSE,
                  jXB |-> FALSE, jBX |-> FALSE]
AnsTrivial == [one |-> TRUE, jXA |-> TRUE, jAX |-> TRUE,
               jXB |-> TRUE, jBX |-> TRUE]
AnsAmbiguous == [one |-> TRUE, jXA |-> FALSE, jAX |-> FALSE,
                 jXB |-> FALSE, jBX |-> FALSE]
Answers == {AnsNontrivial, AnsTrivial, AnsAmbiguous}

\* the words check_proof passes to the solver
AssertedWords(cs) == {Concat(cs[i][2]) : i \in 1..Len(cs)}
SolverWords(cs) == EdgeLabels(cs) \cup AssertedWords(cs)

\* the answers of a faithful representation at sufficient precision
FaithfulOracle(cs) ==
    [w \in SolverWords(cs) |->
        IF w \in EdgeLabels(cs) THEN AnsNontrivial ELSE AnsTrivial]

\* check_proof.py lines 11-13: the "proof" field of sample1, m003(-3,1)
Sample1 ==
    <<
       <<<<"a", ".", "b">>,
         <<"b", ".", "a", ".", "b", ".", "a", ".", "b", ".", "b", ".",
          "a", ".", "a", ".", "a", ".", "b">>>>,
       <<<<"a", ".", "B", ".", "c">>,
         <<"a", ".", "B", ".", "c", ".", "a", ".", "a", ".", "c", ".",
          "c">>>>,
       <<<<"a", ".", "B", ".", "C">>,
         <<"C", ".", "a", ".", "C", ".", "a", ".", "a", ".", "B">>>>
    >>

\* check_proof.py line 15: the "proof" field of sample2, m007(-4,3)
Sample2 ==
    <<
       <<<<"a", ".", "b", ".", "c">>,
         <<"b", ".", "c", ".", "a", ".", "a", ".", "c">>>>,
       <<<<"a", ".", "b", ".", "C", ".", "a", "B">>,
         <<"a", ".", "a", "B", ".", "a", ".", "a", ".", "b", ".", "C",
          ".", "a", ".", "a", "B", ".", "a", "B", ".", "C", ".", "b", ".",
          "a", "B", ".", "a", ".", "a", ".", "b">>>>,
       <<<<"a", ".", "b", ".", "C", ".", "b", "A", ".", "c", "a">>,
         <<"c", "a", ".", "c", "a", ".", "a", ".", "b", ".", "a", ".",
          "a">>>>,
       <<<<"a", ".", "b", ".", "C", ".", "b", "A", ".", "A", "C", ".",
          "A", "b", ".", "c", "b", ".", "a", "c">>,
         <<"c", "b", ".", "c", "b", ".", "a", ".", "a", "c", ".", "a",
          "c", ".", "a", ".", "a", ".", "a", ".", "a">>>>,
       <<<<"a", ".", "b", ".", "C", ".", "b", "A", ".", "A", "C", ".",
          "A", "b", ".", "c", "b", ".", "C", "A", ".", "b", "c">>,
         <<"b", "c", ".", "c", "b", ".", "a", ".", "b", "c", ".", "c",
          "b", ".", "a", ".", "b", "c", ".", "c", "b", ".", "c", "b", ".",
          "a", ".", "b", "c", ".", "c", "b", ".", "a", ".", "b", "c", ".",
          "c", "b", ".", "a", ".", "a", ".", "a", ".", "b", "c", ".", "c",
          "b", ".", "a", ".", "b", "c", ".", "c", "b", ".", "a", ".", "a",
          ".", "a", ".", "b", "c", ".", "c", "b", ".", "a", ".", "b", "c",
          ".", "c", "b", ".", "a", ".", "b", "c">>>>,
       <<<<"a", ".", "b", ".", "C", ".", "b", "A", ".", "A", "C", ".",
          "A", "b", ".", "c", "b", ".", "C", "A", ".", "C", "B">>,
         <<"C", "B", ".", "a", ".", "a", ".", "b", "A", ".", "A", "C",
          ".", "C", "B", ".", "a", ".", "a", ".", "b", "A", ".", "A", "C",
          ".", "C", "B", ".", "a", ".", "a", ".", "b", "A", ".", "A", "C",
          ".", "C", "B", ".", "a">>>>,
       <<<<"a", ".", "b", ".", "C", ".", "b", "A", ".", "A", "C", ".",
          "A", "b", ".", "c", "b", ".", "C", "A", ".", "B", "C">>,
         <<"b", "A", ".", "A", "C", ".", "a", ".", "a", ".", "B", "C",
          ".", "a", ".", "B", "C", ".", "b", "A", ".", "A", "C", ".", "a",
          ".", "a", ".", "B", "C", ".", "b", "A", ".", "A", "C", ".", "a",
          ".", "a", ".", "B", "C">>>>,
       <<<<"a", ".", "b", ".", "C", ".", "b", "A", ".", "A", "C", ".",
          "A", "b", ".", "c", "b", ".", "C", "A", ".", "B", "a">>,
         <<"A", "C", ".", "B", "a", ".", "B", "a", ".", "A", "C", ".",
          "b", ".", "a">>>>,
       <<<<"a", ".", "b", ".", "C", ".", "b", "A", ".", "A", "C", ".",
          "A", "b", ".", "c", "b", ".", "C", "A", ".", "B", ".", "c", ".",
          "a", "C">>,
         <<"a", ".", "a", ".", "c", ".", "a", ".", "c", ".", "a", ".",
          "c", ".", "a", ".", "a", "C", ".", "a", ".", "a", ".", "c", ".",
          "a", ".", "c", ".", "a", ".", "c", ".", "a", ".", "a", "C", ".",
          "a", ".", "a", ".", "c", ".", "a", ".", "c", ".", "a", ".", "c",
          ".", "a", ".", "c", ".", "a", ".", "a", "C", ".", "a", ".", "a",
          ".", "c", ".", "a", ".", "c", ".", "a", ".", "c", ".", "a", ".",
          "a", "C", ".", "a", ".", "a", ".", "c", ".", "a", ".", "c", ".",
          "a", ".", "c", ".", "a", ".", "a", "C", ".", "a", ".", "a",
          "C">>>>,
       <<<<"a", ".", "b", ".", "C", ".", "b", "A", ".", "A", "C", ".",
          "A", "b", ".", "c", "b", ".", "C", "A", ".", "B", ".", "c", ".",
          "c", "A">>,
         <<"a", ".", "a", ".", "c", "A", ".", "c", ".", "a", ".", "a",
          ".", "a", ".", "a", ".", "c", "A", ".", "c", ".", "a", ".", "a",
          ".", "a", ".", "a", ".", "a", ".", "a", ".", "c", "A", ".", "c",
          ".", "a", ".", "a", ".", "a", ".", "a", ".", "c", "A", ".", "c",
          ".", "a", ".", "a", ".", "a", ".", "a", ".", "c", "A", ".", "c",
          "A", ".", "c", ".", "a", ".", "a", ".", "a", ".", "a", ".", "c",
          "A", ".", "c", ".", "a", ".", "a", ".", "a", ".", "a", ".", "c",
          "A", ".", "c", ".", "a", ".", "a", ".", "a", ".", "a">>>>,
       <<<<"a", ".", "b", ".", "C", ".", "b", "A", ".", "A", "C", ".",
          "A", "b", ".", "c", "b", ".", "C", "A", ".", "B", ".", "c", ".",
          "C", ".", "b", "a">>,
         <<"a", ".", "B", ".", "a", ".", "a", ".", "b", "a", ".", "a",
          ".", "B", ".", "a", ".", "B", ".", "C", ".", "C", ".", "b",
          "a">>>>,
       <<<<"a", ".", "b", ".", "C", ".", "b", "A", ".", "A", "C", ".",
          "A", "b", ".", "c", "b", ".", "C", "A", ".", "B", ".", "c", ".",
          "C", ".", "A", "B">>,
         <<"A", "B", ".", "C", ".", "C", ".", "C", ".", "B", ".", "A",
          "B", ".", "C", ".", "C", ".", "C", ".", "C", ".", "C", ".", "C",
          ".", "C", ".", "B", ".", "A", "B", ".", "B", ".", "a", ".", "B",
          ".", "C", ".", "a", ".", "B", ".", "C", ".", "a", ".", "B", ".",
          "C">>>>
    >>

ProofIdle ==
    /\ ppc = "idle" /\ proof = <<>> /\ orc = <<>> /\ claims = <<>>
    /\ a0 = FALSE /\ a1 = FALSE /\ a2 = FALSE /\ outcome = "" /\ raised = FALSE

ProofStart ==
    /\ ppc = "start" /\ claims = <<>>
    /\ a0 = FALSE /\ a1 = FALSE /\ a2 = FALSE /\ outcome = "" /\ raised = FALSE

\* small proof records: paths and asserted words over the labels a and A
ProofLabels == {<<"a">>, <<"A">>}
ProofPaths == {<<x>> : x \in ProofLabels} \cup {<<x, y>> : x, y \in ProofLabels}
ProofTokenLists == {<< <<"A">> >>, << <<"a">>, <<"a">> >>, << <<"a">>, <<"A">> >>}
ProofPairs == {<<DotJoin(pa), DotJoin(tw)>> : pa \in ProofPaths, tw \in ProofTokenLists}
Proofs == SeqsOf(ProofPairs, 0, MaxProofClaims)

ProofInit ==
    /\ ProofStart
    /\ proof \in Proofs
    /\ orc \in [SolverWords(ParseClaims(proof)) -> Answers]

\* the faithful answers, and the faithful answers but for one word
SampleOracles(cs) ==
    LET f == FaithfulOracle(cs)
    IN {f} \cup {[f EXCEPT ![w] = x] : w \in SolverWords(cs), x \in Answers}

\* the two sample proofs, with the answers of a faithful representation or
\* with one word answered otherwise
SamplesInit ==
    /\ ProofStart
    /\ proof \in {Sample1, Sample2}
    /\ orc \in SampleOracles(ParseClaims(proof))

\* lines 84-96: the solver is constructed, the declared generators and
\* relators are compared, the claims are split. The constructor can raise
\* ValueError and the assertions AssertionError. With both passed, tree_ok
\* is entered (lines 25-28).
ProofSetup ==
    /\ ppc = "start"
    /\ \E r \in {"ok", "ValueError", "AssertionError"} :
        IF r = "ok"
        THEN /\ claims' = ParseClaims(proof)
             /\ ppc' = "tree"
             /\ outcome' = outcome
             /\ T' = TreeStart.G
             /\ leaves' = TreeStart.leaves
        ELSE /\ ppc' = "done"
             /\ outcome' = r
             /\ UNCHANGED <<claims, T, leaves>>
    /\ UNCHANGED <<proof, orc, a0, a1, a2, raised>>
    /\ UNCHANGED <<tpc, tpaths, tresult, solverVars>>

\* line 97, tree_ok lines 29-35: the next claim's path
ProofTreeAddPath ==
    /\ ppc = "tree"
    /\ Len(tpaths) < Len(claims)
    /\ LET path == PathsToRoot(claims)[Len(tpaths) + 1]
           st == AddPath([G |-> T, leaves |-> leaves], path)
       IN /\ T' = st.G
          /\ leaves' = st.leaves
          /\ tpaths' = Append(tpaths, path)
    /\ UNCHANGED proofVars
    /\ UNCHANGED <<tpc, tresult, solverVars>>

\* line 97, tree_ok lines 39-69: a0 = tree_ok(claims)
ProofTreeCheck ==
    /\ ppc = "tree"
    /\ Len(tpaths) = Len(claims)
    /\ a0' = CheckTree([G |-> T, leaves |-> leaves])
    /\ ppc' = "edges"
    /\ UNCHANGED <<proof, orc, claims, a1, a2, outcome, raised>>
    /\ UNCHANGED <<treeVars, solverVars>>

\* line 98
ProofEdges ==
    /\ ppc = "edges"
    /\ \E r \in EdgeLabelOutcomes(orc, EdgeLabels(claims)) :
        /\ raised' = (r = "raise")
        /\ IF CallResult(r).raises
           THEN ppc' = "done" /\ outcome' = "PrecisionError" /\ a1' = a1
           ELSE ppc' = "claims" /\ a1' = CallResult(r).value /\ outcome' = outcome
    /\ UNCHANGED <<proof, orc, claims, a0, a2>>
    /\ UNCHANGED <<treeVars, solverVars>>

\* line 99
ProofClaims ==
    /\ ppc = "claims"
    /\ LET r == AllClaims(orc, claims)
       IN /\ raised' = (r = "raise")
          /\ IF CallResult(r).raises
             THEN ppc' = "done" /\ outcome' = "PrecisionError" /\ a2' = a2
             ELSE ppc' = "return" /\ a2' = CallResult(r).value /\ outcome' = outcome
    /\ UNCHANGED <<proof, orc, claims, a0, a1>>
    /\ UNCHANGED <<treeVars, solverVars>>

\* line 100
ProofReturn ==
    /\ ppc = "return"
    /\ outcome' = ReturnValue(a0, a1, a2)
    /\ ppc' = "done"
    /\ UNCHANGED <<proof, orc, claims, a0, a1, a2, raised>>
    /\ UNCHANGED <<treeVars, solverVars>>

ProofNext ==
    \/ ProofSetup \/ ProofTreeAddPath \/ ProofTreeCheck
    \/ ProofEdges \/ ProofClaims \/ ProofReturn

----------------------------------------------------------------------------
(* The tree_ok machine: one step per path of the outer loop, then the checks *)

\* edge labels the paths are drawn from: one-letter words, and a two-letter
\* word with its formal inverse
Words == {<<"a">>, <<"A">>, <<"a", "b">>, <<"B", "A">>}
\* a path is what split('.') returns: at least one token
Paths == SeqsOf(Words, 1, MaxPathLen)

TreeIdle ==
    /\ tpc = "idle" /\ tpaths = <<>> /\ T = EmptyGraph /\ leaves = <<>>
    /\ tresult = FALSE

TreeInit ==
    /\ tpc = "build"
    /\ tpaths = <<>>
    /\ T = TreeStart.G
    /\ leaves = TreeStart.leaves
    /\ tresult = FALSE

\* lines 29-35, one path
TreeAddPath ==
    /\ tpc = "build"
    /\ Len(tpaths) < MaxClaims
    /\ \E path \in Paths :
        LET st == AddPath([G |-> T, leaves |-> leaves], path)
        IN /\ T' = st.G
           /\ leaves' = st.leaves
           /\ tpaths' = Append(tpaths, path)
    /\ UNCHANGED <<tpc, tresult>>
    /\ UNCHANGED <<solverVars, proofVars>>

\* lines 39-69, the paths exhausted
TreeCheck ==
    /\ tpc = "build"
    /\ tresult' = CheckTree([G |-> T, leaves |-> leaves])
    /\ tpc' = "done"
    /\ UNCHANGED <<tpaths, T, leaves>>
    /\ UNCHANGED <<solverVars, proofVars>>

TreeNext == TreeAddPath \/ TreeCheck

----------------------------------------------------------------------------
(* Specifications *)

\* tree_ok over every list of at most MaxClaims paths
InitTree == TreeInit /\ SolverIdle /\ ProofIdle
SpecTree == InitTree /\ [][TreeNext]_vars
\* the solver's construction and queries over every representation
InitSolver == SolverInit /\ TreeIdle /\ ProofIdle
SpecSolver == InitSolver /\ [][SolverNext]_vars
\* the solver's construction over every filling
InitManifold == ManifoldInit /\ TreeIdle /\ ProofIdle
SpecManifold == InitManifold /\ [][SolverNext]_vars
\* check_proof over small proof records and every answer of the solver
InitProof == ProofInit /\ TreeIdle /\ SolverIdle
SpecProof == InitProof /\ [][ProofNext]_vars
\* check_proof over the two sample proofs
InitSamples == SamplesInit /\ TreeIdle /\ SolverIdle
SpecSamples == InitSamples /\ [][ProofNext]_vars

----------------------------------------------------------------------------
(* Claims about tree_ok *)

\* the node tree_ok creates for the end of a path: '1.' + '.'.join(path)
EndNode(path) == Root \o <<Dot>> \o DotJoin(path)
ClaimEnds == {EndNode(tpaths[i]) : i \in 1..Len(tpaths)}
IsProperPrefix(p, q) == Len(p) < Len(q) /\ SubSeq(q, 1, Len(p)) = p
\* w1 is w0 with the letter order reversed and every letter's case flipped
FormalInverses(w0, w1) ==
    /\ Len(w0) = Len(w1)
    /\ \A i \in 1..Len(w0) : w1[i] = SwapCaseChar(w0[Len(w0) + 1 - i])
SinglePathA == << << <<"a">> >> >>
TwicePathA == << << <<"a">> >>, << <<"a">> >> >>

\* C1 as stated: tree_ok returns true only if the root '1' has total degree
\* exactly 3, and the single claim with path ["a"] is rejected.
C1_RootDegreeThree ==
    tpc = "done" =>
        /\ tresult => Degree(T, Root) = 3
        /\ tpaths = SinglePathA => ~tresult

\* C1 amended: the root is in the leaf list, so tree_ok returns true only if
\* the root '1' has total degree exactly 1 (one outgoing edge, none coming
\* in), and the single claim with path ["a"] is accepted.
C1_RootIsLeaf ==
    tpc = "done" =>
        /\ tresult => Degree(T, Root) = 1 /\ OutDegree(T, Root) = 1
        /\ tpaths = SinglePathA => tresult

C1_Witness == tpc = "done" /\ tpaths = SinglePathA /\ tresult

\* C6: whenever tree_ok returns true, every node with an incoming edge that
\* is not the end of a claim's path has total degree 3, exactly two outgoing
\* edges, and their labels are formal inverses of each other in either
\* order; invert_word is an involution on the words.
C6_InteriorInverseLabels ==
    /\ \A w \in Words : InvertWord(InvertWord(w)) = w
    /\ (tpc = "done" /\ tresult) =>
        \A v \in T.nodes :
            (InDegree(T, v) >= 1 /\ v \notin ClaimEnds) =>
                /\ Degree(T, v) = 3
                /\ OutDegree(T, v) = 2
                /\ FormalInverses(OutLabels(T, v)[1], OutLabels(T, v)[2])
                /\ FormalInverses(OutLabels(T, v)[2], OutLabels(T, v)[1])

C6_Witness ==
    /\ tpc = "done" /\ tresult
    /\ \E v \in T.nodes :
        /\ InDegree(T, v) >= 1 /\ v \notin ClaimEnds
        /\ Len(OutLabels(T, v)[1]) = 2

\* C7: whenever tree_ok returns true, the end node of every claim's path has
\* total degree 1, no claim's path is a proper prefix of another's, no two
\* claims end at the same node, and there are as many distinct end nodes as
\* claims; two claims with the identical path ["a"] are rejected.
C7_LeavesMatchClaims ==
    tpc = "done" =>
        /\ tresult =>
            /\ \A i \in 1..Len(tpaths) : Degree(T, EndNode(tpaths[i])) = 1
            /\ \A i, j \in 1..Len(tpaths) :
                 i # j => /\ ~IsProperPrefix(tpaths[i], tpaths[j])
                          /\ EndNode(tpaths[i]) # EndNode(tpaths[j])
            /\ Cardinality(ClaimEnds) = Len(tpaths)
        /\ tpaths = TwicePathA => ~tresult

C7_Witness ==
    /\ tpc = "done" /\ tresult /\ Len(tpaths) = 2
    /\ \E v \in T.nodes : OutDegree(T, v) = 2

----------------------------------------------------------------------------
(* Claims about WordProblemSolver *)

\* the answer C2 describes for an image that tests as x
ClaimedNontrivial(x) ==
    IF ~x.one THEN "True"
    ELSE IF (x.jXA \/ x.jAX) /\ (x.jXB \/ x.jBX) THEN "False"
    ELSE "raise"
Negated(r) == IF r = "raise" THEN "raise" ELSE IF r = "True" THEN "False" ELSE "True"

\* C2: is_nontrivial returns true when X provably does not contain the
\* identity; otherwise false exactly when the Jorgensen test fails for (X, A)
\* or (A, X) and also for (X, B) or (B, X); otherwise it raises the precision
\* error. is_trivial is its negation and raises in the same cases.
C2_BothDirections ==
    /\ call.method = "is_nontrivial" => call.result = ClaimedNontrivial(call.x)
    /\ call.method = "is_trivial" => call.result = Negated(ClaimedNontrivial(call.x))

\* g h g^-1 h^-1
Commutator(g, h) == g \o h \o InvertWord(g) \o InvertWord(h)
\* the image of the commutator of the generators at positions i < j
\* provably does not contain the identity
Qualifies(i, j) == Commutator(env.gens[i], env.gens[j]) \notin env.one
GenPairs == {p \in (1..Len(env.gens)) \X (1..Len(env.gens)) : p[1] < p[2]}
Earlier(p, q) == p[1] < q[1] \/ (p[1] = q[1] /\ p[2] < q[2])

\* C8: the anchors are the first pair of generators, in source order, whose
\* commutator's image provably does not contain the identity, stored with
\* the images of the two generators; if no pair qualifies (fewer than two
\* generators included) the constructor raises and no solver exists.
C8_FirstNoncommutingPair ==
    /\ spc = "ready" =>
        \E p \in GenPairs :
            /\ anchors = <<env.gens[p[1]], env.gens[p[2]]>>
            /\ mats = <<Image(env.gens[p[1]]), Image(env.gens[p[2]])>>
            /\ Qualifies(p[1], p[2])
            /\ \A q \in GenPairs : Earlier(q, p) => ~Qualifies(q[1], q[2])
    /\ (spc = "failed" /\ serr = NoncommutingError) =>
        /\ \A q \in GenPairs : ~Qualifies(q[1], q[2])
        /\ anchors = <<>> /\ call = NoCall
    /\ (spc = "find" /\ pairIdx > Len(Pairs(env.gens))) =>
        \A q \in GenPairs : ~Qualifies(q[1], q[2])
    /\ call # NoCall => spc = "ready"

\* the pair (c, d) is chosen: five earlier pairs did not qualify
C8_Witness ==
    /\ spc = "ready" /\ Len(env.gens) = 4 /\ anchors = <<env.gens[3], env.gens[4]>>

Divides(d, n) == \E k \in (0 - Abs(n))..Abs(n) : n = d * k
Coprime(a, b) ==
    /\ ~(a = 0 /\ b = 0)
    /\ \A d \in 2..(Abs(a) + Abs(b)) : ~(Divides(d, a) /\ Divides(d, b))
\* a cusp is unfilled, (0, 0), or filled along a pair of coprime integers
CuspOK(c) ==
    /\ c[1].int /\ c[2].int
    /\ (c[1].n = 0 /\ c[2].n = 0) \/ Coprime(c[1].n, c[2].n)
AllCuspsOK == \A i \in 1..Len(manifold) : CuspOK(manifold[i])

\* C9: is_manifold is true exactly when every cusp is unfilled or filled
\* along coprime integers; when it is false the constructor raises the
\* orbifold error before verify_hyperbolicity is called and before any word
\* is evaluated.
C9_OrbifoldRejectedFirst ==
    /\ spc # "idle" => (IsManifold(manifold) <=> AllCuspsOK)
    /\ (spc \notin {"idle", "new"} /\ ~AllCuspsOK) =>
        /\ spc = "failed" /\ serr = OrbifoldError
        /\ ~verifyCalled /\ ~evaluated /\ ~rho
    /\ serr = OrbifoldError => ~AllCuspsOK

\* the first cusp is unfilled and the second is filled along (2, 2)
C9_Witness ==
    /\ spc = "failed" /\ serr = OrbifoldError
    /\ Len(manifold) = 2
    /\ manifold[1] = <<IntCoef(0), IntCoef(0)>>
    /\ manifold[2] = <<IntCoef(2), IntCoef(2)>>

----------------------------------------------------------------------------
(* Claims about check_proof *)

\* every enumeration order of a finite set
Orders(S) == {f \in [1..Cardinality(S) -> S] : Range(f) = S}

\* check_proof reached line 97 and returned or raised from there on
Checked == ppc = "done" /\ outcome \in {"True", "False", "PrecisionError"}

\* step 3: tree_ok accepts the claims' paths
TreeAccepted == TreeOk(claims)
\* step 4: every distinct edge label is shown nontrivial
LabelsNontrivial == \A e \in EdgeLabels(claims) : IsNontrivial(orc[e]) = "True"
\* step 5: every token of a claim's asserted word is in the claim's own
\* path, and the concatenation is shown trivial
TokensInPath(c) == \A k \in 1..Len(c[2]) : \E m \in 1..Len(c[1]) : c[2][k] = c[1][m]
ShownTrivial(c) == IsTrivial(orc[Concat(c[2])]) = "True"
ClaimsHold == \A i \in 1..Len(claims) : TokensInPath(claims[i]) /\ ShownTrivial(claims[i])

\* C3: when no solver call fails, check_proof returns true if and only if
\* tree_ok accepts the paths, every edge label is shown nontrivial, and every
\* claim has its tokens in its own path and its word shown trivial; a claim
\* with a token absent from its own path makes the result false even when
\* its word is shown trivial.
C3_ResultIsConjunction ==
    /\ (Checked /\ ~raised) =>
        /\ outcome \in {"True", "False"}
        /\ outcome = "True" <=> (TreeAccepted /\ LabelsNontrivial /\ ClaimsHold)
        /\ (\E i \in 1..Len(claims) : ~TokensInPath(claims[i]) /\ ShownTrivial(claims[i]))
              => outcome = "False"
    /\ (Checked /\ outcome = "True") => ~raised

\* the tree is accepted, the labels are nontrivial, every word is trivial,
\* and a token is absent from its claim's path
C3_Witness ==
    /\ Checked /\ outcome = "False"
    /\ TreeAccepted /\ LabelsNontrivial
    /\ \A i \in 1..Len(claims) : ShownTrivial(claims[i])
    /\ \E i \in 1..Len(claims) : ~TokensInPath(claims[i])

\* C4: if a solver call made for the edge labels or for the claims fails
\* with the precision error, check_proof ends with that error and returns no
\* boolean, whether or not tree_ok accepted the paths.
C4_PrecisionErrorPropagates ==
    /\ (ppc = "done" /\ raised) => outcome = "PrecisionError"
    /\ raised => ppc = "done"
    /\ outcome = "PrecisionError" => raised

\* the error leaves check_proof although tree_ok had rejected the paths
C4_Witness ==
    /\ ppc = "done" /\ raised /\ outcome = "PrecisionError"
    /\ ~a0 /\ ~TreeAccepted

\* C5: for each sample proof, with the answers of a faithful representation
\* (every edge label nontrivial, every asserted word trivial), check_proof
\* returns true, tree_ok accepts the paths and every claim's tokens lie in
\* the claim's own path.
C5_SamplesAccepted ==
    (Checked /\ orc = FaithfulOracle(claims)) =>
        /\ outcome = "True"
        /\ a0
        /\ \A i \in 1..Len(claims) : TokensInPath(claims[i])

\* C10: for a fixed claim list and fixed answers, check_proof has the same
\* outcome whatever order the set of edge labels is enumerated in.
C10_OrderIndependent ==
    Checked =>
        \A order \in Orders(EdgeLabels(claims)) :
            CheckProofInOrder(claims, orc, order) = outcome

\* the outcomes of all_nontrivial_edge_labels are those of its loop over the
\* enumeration orders of the labels
EdgeOutcomesAreOrders ==
    ppc = "edges" =>
        EdgeLabelOutcomes(orc, EdgeLabels(claims)) =
            {AllNontrivialInOrder(orc, order) : order \in Orders(EdgeLabels(claims))}

====
